---- MODULE Spec2Model ----
(***************************************************************************)
(* Model of the command-line contact book of src/main.py: field            *)
(* validators, Record, AddressBook (with get_upcoming_birthdays), the      *)
(* pickle persistence adapter and the command loop of main().              *)
(*                                                                         *)
(* Python strings are modelled as tuples of one-character strings, so that *)
(* validation, parsing, formatting and lower-casing are computed           *)
(* character by character.  A raised exception is modelled as a result     *)
(* record whose field "raised" holds the exception message ("" = none).    *)
(***************************************************************************)
EXTENDS Integers, Sequences, FiniteSets, TLC

VARIABLES book, file, pc, steps, last

vars == <<book, file, pc, steps, last>>

----------------------------------------------------------------------------
(* Bounds of the model *)

\* total number of command lines read over a run (all sessions together)
MaxSteps == 4
\* get_upcoming_birthdays is explored for every today in FirstYear..LastYear
FirstYear == 2023
LastYear == 2025

----------------------------------------------------------------------------
(* Characters and strings *)

DigitChars == <<"0", "1", "2", "3", "4", "5", "6", "7", "8", "9">>

UpperChars == <<"A", "B", "C", "D", "E", "F", "G", "H", "I", "J", "K", "L", "M",
                "N", "O", "P", "Q", "R", "S", "T", "U", "V", "W", "X", "Y", "Z">>

LowerChars == <<"a", "b", "c", "d", "e", "f", "g", "h", "i", "j", "k", "l", "m",
                "n", "o", "p", "q", "r", "s", "t", "u", "v", "w", "x", "y", "z">>

Range(s) == {s[i] : i \in DOMAIN s}

\* str.isdigit(): non-empty and every character a decimal digit
IsDigit(s) == Len(s) > 0 /\ \A i \in DOMAIN s : s[i] \in Range(DigitChars)

DigitVal(c) == (CHOOSE i \in DOMAIN DigitChars : DigitChars[i] = c) - 1

RECURSIVE ToInt(_)
\* int(s) for a string of decimal digits
ToInt(s) == IF s = <<>> THEN 0
            ELSE 10 * ToInt(SubSeq(s, 1, Len(s) - 1)) + DigitVal(s[Len(s)])

\* zero-padded decimal rendering of n on w characters (%02d, %04d)
Pad(n, w) == [i \in 1..w |-> DigitChars[((n \div (10 ^ (w - i))) % 10) + 1]]

RECURSIVE Decimal(_)
\* repr of a natural number
Decimal(n) == IF n < 10 THEN <<DigitChars[n + 1]>>
              ELSE Decimal(n \div 10) \o <<DigitChars[(n % 10) + 1]>>

LowerChar(c) == IF \E i \in DOMAIN UpperChars : UpperChars[i] = c
                THEN LowerChars[CHOOSE i \in DOMAIN UpperChars : UpperChars[i] = c]
                ELSE c

\* str.lower()
Lower(s) == [i \in DOMAIN s |-> LowerChar(s[i])]

----------------------------------------------------------------------------
(* Calendar arithmetic of datetime.date *)

IsLeap(y) == y % 4 = 0 /\ (y % 100 # 0 \/ y % 400 = 0)

DaysInMonth(y, m) == IF m = 2 THEN (IF IsLeap(y) THEN 29 ELSE 28)
                     ELSE IF m \in {4, 6, 9, 11} THEN 30 ELSE 31

DaysBeforeYear(y) == (y - 1) * 365 + ((y - 1) \div 4) - ((y - 1) \div 100)
                     + ((y - 1) \div 400)

RECURSIVE DaysBeforeMonth(_, _)
DaysBeforeMonth(y, m) == IF m = 1 THEN 0
                         ELSE DaysBeforeMonth(y, m - 1) + DaysInMonth(y, m - 1)

\* date.toordinal()
Ordinal(dt) == DaysBeforeYear(dt.y) + DaysBeforeMonth(dt.y, dt.m) + dt.d

\* date.weekday(): Monday = 0 ... Sunday = 6
Weekday(dt) == (Ordinal(dt) + 6) % 7

\* date1 < date2
DateLess(a, b) == \/ a.y < b.y
                  \/ a.y = b.y /\ a.m < b.m
                  \/ a.y = b.y /\ a.m = b.m /\ a.d < b.d

RECURSIVE AddDays(_, _)
\* date + timedelta(days=k), k >= 0
AddDays(dt, k) ==
    IF k = 0 THEN dt
    ELSE IF dt.d < DaysInMonth(dt.y, dt.m)
         THEN AddDays([dt EXCEPT !.d = dt.d + 1], k - 1)
         ELSE IF dt.m < 12
              THEN AddDays([y |-> dt.y, m |-> dt.m + 1, d |-> 1], k - 1)
              ELSE AddDays([y |-> dt.y + 1, m |-> 1, d |-> 1], k - 1)

\* date.replace(year=y): ValueError when the day does not exist in that year
ReplaceYear(dt, y) ==
    IF dt.d > DaysInMonth(y, dt.m)
    THEN [raised |-> "day is out of range for month", date |-> dt]
    ELSE [raised |-> "", date |-> [dt EXCEPT !.y = y]]

\* date.strftime("%d.%m.%Y")
Strftime(dt) == Pad(dt.d, 2) \o <<".">> \o Pad(dt.m, 2) \o <<".">> \o Pad(dt.y, 4)

\* datetime.strptime(s, "%d.%m.%Y"): day and month of one or two digits, a
\* year of exactly four digits, separated by dots, naming a real date
Strptime(s) ==
    LET dots == {i \in DOMAIN s : s[i] = "."}
        bad  == [raised |-> "does not match format", date |-> [y |-> 0, m |-> 0, d |-> 0]]
    IN  IF Cardinality(dots) # 2 THEN bad
        ELSE LET i1 == CHOOSE i \in dots : \A j \in dots : i <= j
                 i2 == CHOOSE i \in dots : \A j \in dots : j <= i
                 ds == SubSeq(s, 1, i1 - 1)
                 ms == SubSeq(s, i1 + 1, i2 - 1)
                 ys == SubSeq(s, i2 + 1, Len(s))
             IN  IF ~(IsDigit(ds) /\ IsDigit(ms) /\ IsDigit(ys)) THEN bad
                 ELSE IF ~(Len(ds) \in {1, 2} /\ Len(ms) \in {1, 2} /\ Len(ys) = 4) THEN bad
                 ELSE LET dd == ToInt(ds)
                          mm == ToInt(ms)
                          yy == ToInt(ys)
                      IN  IF ~(dd \in 1..31 /\ mm \in 1..12 /\ yy >= 1) THEN bad
                          ELSE IF dd > DaysInMonth(yy, mm) THEN bad
                          ELSE [raised |-> "", date |-> [y |-> yy, m |-> mm, d |-> dd]]

----------------------------------------------------------------------------
(* Field validators *)

\* the value of an absent birthday (self.birthday = None); no validated
\* birthday string is empty
None == <<>>

\* Name(value)
Name(value) == IF value = <<>> THEN "Name cannot be empty" ELSE ""

\* Phone(value)
Phone(value) == IF ~IsDigit(value) \/ Len(value) # 10
                THEN "Phone must contain exactly 10 digits" ELSE ""

\* Birthday(value)
Birthday(value) == IF Strptime(value).raised # ""
                   THEN "Invalid date format. Use DD.MM.YYYY" ELSE ""

\* Birthday.date_obj()
date_obj(value) == Strptime(value).date

----------------------------------------------------------------------------
(* Record *)

\* Record(name)
Record(name) == [raised |-> Name(name),
                 rec |-> [name |-> name, phones |-> <<>>, birthday |-> None]]

\* Record.add_phone(phone)
add_phone(rec, phone) ==
    IF Phone(phone) # "" THEN [raised |-> Phone(phone), rec |-> rec]
    ELSE [raised |-> "", rec |-> [rec EXCEPT !.phones = Append(@, phone)]]

\* edit_phone that takes the old phone out before validating the new one
edit_phone_remove_first(rec, old_phone, new_phone) ==
    LET hits == {i \in DOMAIN rec.phones : rec.phones[i] = old_phone}
    IN  IF hits = {} THEN [raised |-> "Phone not found", rec |-> rec]
        ELSE LET i == CHOOSE k \in hits : \A j \in hits : k <= j
                 without == SubSeq(rec.phones, 1, i - 1)
                            \o SubSeq(rec.phones, i + 1, Len(rec.phones))
             IN  IF Phone(new_phone) # ""
                 THEN [raised |-> Phone(new_phone),
                       rec |-> [rec EXCEPT !.phones = without]]
                 ELSE [raised |-> "", rec |-> [rec EXCEPT !.phones[i] = new_phone]]

\* edit_phone without the return: every matching phone is replaced
edit_phone_replace_all(rec, old_phone, new_phone) ==
    LET hits == {i \in DOMAIN rec.phones : rec.phones[i] = old_phone}
    IN  IF hits = {} THEN [raised |-> "Phone not found", rec |-> rec]
        ELSE IF Phone(new_phone) # ""
             THEN [raised |-> Phone(new_phone), rec |-> rec]
             ELSE [raised |-> "",
                   rec |-> [rec EXCEPT !.phones =
                               [i \in DOMAIN rec.phones |->
                                   IF i \in hits THEN new_phone ELSE rec.phones[i]]]]

\* Record.edit_phone(old_phone, new_phone)
edit_phone(rec, old_phone, new_phone) ==
    LET hits == {i \in DOMAIN rec.phones : rec.phones[i] = old_phone}
    IN  IF hits = {} THEN [raised |-> "Phone not found", rec |-> rec]
        ELSE LET i == CHOOSE k \in hits : \A j \in hits : k <= j
             IN  IF Phone(new_phone) # ""
                 THEN [raised |-> Phone(new_phone), rec |-> rec]
                 ELSE [raised |-> "", rec |-> [rec EXCEPT !.phones[i] = new_phone]]

\* Record.add_birthday(birthday)
add_birthday(rec, birthday) ==
    IF Birthday(birthday) # "" THEN [raised |-> Birthday(birthday), rec |-> rec]
    ELSE [raised |-> "", rec |-> [rec EXCEPT !.birthday = birthday]]

S_contact_name == <<"C", "o", "n", "t", "a", "c", "t", " ", "n", "a", "m", "e", ":", " ">>
S_phones == <<",", " ", "p", "h", "o", "n", "e", "s", ":", " ">>
S_birthday == <<",", " ", "b", "i", "r", "t", "h", "d", "a", "y", ":", " ">>
S_empty == <<"A", "d", "d", "r", "e", "s", "s", " ", "b", "o", "o", "k", " ",
             "i", "s", " ", "e", "m", "p", "t", "y">>

RECURSIVE Join(_, _)
\* sep.join(items)
Join(sep, items) == IF items = <<>> THEN <<>>
                    ELSE IF Len(items) = 1 THEN items[1]
                    ELSE items[1] \o sep \o Join(sep, Tail(items))

\* Record.__str__()
RecordStr(rec) ==
    S_contact_name \o rec.name \o S_phones \o Join(<<";", " ">>, rec.phones)
    \o (IF rec.birthday # None THEN S_birthday \o rec.birthday ELSE <<>>)

----------------------------------------------------------------------------
(* AddressBook: a dict in insertion order, modelled as the sequence of its  *)
(* records; the key of a record is its name.                               *)

\* AddressBook.find(name): the position of the record, 0 for None
find(b, name) == IF \E i \in DOMAIN b : b[i].name = name
                 THEN CHOOSE i \in DOMAIN b : b[i].name = name
                 ELSE 0

\* AddressBook.add_record(record)
add_record(b, record) == IF find(b, record.name) # 0
                         THEN [b EXCEPT ![find(b, record.name)] = record]
                         ELSE Append(b, record)

\* a weekend shift that moves a Saturday by one day only
ShiftWeekend_one_day(bday) == IF Weekday(bday) \in {5, 6} THEN AddDays(bday, 1)
                              ELSE bday

\* the weekend shift of get_upcoming_birthdays
ShiftWeekend(bday) == IF Weekday(bday) = 5 THEN AddDays(bday, 2)
                      ELSE IF Weekday(bday) = 6 THEN AddDays(bday, 1)
                      ELSE bday

\* bday of one record: this year's occurrence, rolled to next year when past
Occurrence(birthday, today) ==
    LET r1 == ReplaceYear(date_obj(birthday), today.y)
    IN  IF r1.raised # "" THEN r1
        ELSE IF DateLess(r1.date, today) THEN ReplaceYear(r1.date, today.y + 1)
        ELSE r1

RECURSIVE get_upcoming_birthdays(_, _, _)
\* AddressBook.get_upcoming_birthdays(days) with date.today() = today
get_upcoming_birthdays(b, today, days) ==
    IF b = <<>> THEN [raised |-> "", list |-> <<>>]
    ELSE LET record == Head(b)
             rest   == get_upcoming_birthdays(Tail(b), today, days)
         IN  IF record.birthday = None THEN rest
             ELSE LET occ == Occurrence(record.birthday, today)
                  IN  IF occ.raised # "" THEN [raised |-> occ.raised, list |-> <<>>]
                      ELSE IF rest.raised # "" THEN rest
                      ELSE LET delta == Ordinal(occ.date) - Ordinal(today)
                           IN  IF 0 <= delta /\ delta <= days
                               THEN [raised |-> "",
                                     list |-> <<[name |-> record.name,
                                                 congratulation_date |->
                                                     Strftime(ShiftWeekend(occ.date))]>>
                                              \o rest.list]
                               ELSE rest

\* AddressBook.__str__()
BookStr(b) == IF b = <<>> THEN S_empty
              ELSE Join(<<"\n">>, [i \in DOMAIN b |-> RecordStr(b[i])])

----------------------------------------------------------------------------
(* Persistence: pickle.dump writes the book as a stream of items, each a    *)
(* string: the number of records, then per record its name, the number of   *)
(* phones, the phones, and either the NONE opcode or the birthday value.    *)

OpNone == <<"N">>
OpValue == <<"V">>

\* a pickling that loses the birthday
PickleRecord_no_birthday(rec) ==
    <<rec.name, Decimal(Len(rec.phones))>> \o rec.phones \o <<OpNone>>

PickleRecord(rec) ==
    <<rec.name, Decimal(Len(rec.phones))>> \o rec.phones
    \o (IF rec.birthday = None THEN <<OpNone>> ELSE <<OpValue, rec.birthday>>)

RECURSIVE PickleRecords(_)
PickleRecords(b) == IF b = <<>> THEN <<>>
                    ELSE PickleRecord(Head(b)) \o PickleRecords(Tail(b))

\* pickle.dump(book, f)
PickleDump(b) == <<Decimal(Len(b))>> \o PickleRecords(b)

RECURSIVE UnpickleRecords(_, _)
\* reads n records from the front of the stream
UnpickleRecords(bytes, n) ==
    IF n = 0 THEN <<>>
    ELSE LET np     == ToInt(bytes[2])
             phones == SubSeq(bytes, 3, 2 + np)
             isNone == bytes[3 + np] = OpNone
             rec    == [name |-> bytes[1], phones |-> phones,
                        birthday |-> IF isNone THEN None ELSE bytes[4 + np]]
             used   == IF isNone THEN 3 + np ELSE 4 + np
         IN  <<rec>> \o UnpickleRecords(SubSeq(bytes, used + 1, Len(bytes)), n - 1)

\* pickle.load(f)
PickleLoad(bytes) == UnpickleRecords(Tail(bytes), ToInt(bytes[1]))

NoFile == [exists |-> FALSE, bytes |-> <<>>]

\* save_data(book)
save_data(b) == [exists |-> TRUE, bytes |-> PickleDump(b)]

\* load_data(): FileNotFoundError gives a fresh AddressBook()
load_data(f) == IF f.exists THEN PickleLoad(f.bytes) ELSE <<>>

----------------------------------------------------------------------------
(* The command loop of main() *)

S_exit == <<"e", "x", "i", "t">>
S_close == <<"c", "l", "o", "s", "e">>
S_hello == <<"h", "e", "l", "l", "o">>
S_add == <<"a", "d", "d">>
S_change == <<"c", "h", "a", "n", "g", "e">>
S_phone == <<"p", "h", "o", "n", "e">>
S_all == <<"a", "l", "l">>
S_add_birthday == <<"a", "d", "d", "-", "b", "i", "r", "t", "h", "d", "a", "y">>
S_show_birthday == <<"s", "h", "o", "w", "-", "b", "i", "r", "t", "h", "d", "a", "y">>
S_birthdays == <<"b", "i", "r", "t", "h", "d", "a", "y", "s">>

RECURSIVE SplitFrom(_, _, _)
\* tokens of line[i..], cur being the token under construction
SplitFrom(line, i, cur) ==
    IF i > Len(line) THEN (IF cur = <<>> THEN <<>> ELSE <<cur>>)
    ELSE IF line[i] = " "
         THEN (IF cur = <<>> THEN <<>> ELSE <<cur>>) \o SplitFrom(line, i + 1, <<>>)
         ELSE SplitFrom(line, i + 1, Append(cur, line[i]))

\* str.split(): the maximal runs of non-blank characters
Split(line) == SplitFrom(line, 1, <<>>)

\* parse_input(user_input): parts[0] raises IndexError on a line without tokens
parse_input(user_input) ==
    LET parts == Split(user_input)
    IN  IF parts = <<>>
        THEN [raised |-> "list index out of range", command |-> <<>>, args |-> <<>>]
        ELSE [raised |-> "", command |-> Lower(parts[1]), args |-> Tail(parts)]

\* a dispatch on the first letters of the command (startswith)
Dispatch_prefix(command) ==
    LET starts(w) == Len(command) >= Len(w) /\ SubSeq(command, 1, Len(w)) = w
    IN  IF command \in {S_exit, S_close} THEN "exit"
        ELSE IF command = S_hello THEN "hello"
        ELSE IF command = S_add_birthday THEN "add-birthday"
        ELSE IF starts(S_add) THEN "add"
        ELSE IF command = S_change THEN "change"
        ELSE IF command = S_phone THEN "phone"
        ELSE IF command = S_all THEN "all"
        ELSE IF command = S_show_birthday THEN "show-birthday"
        ELSE IF command = S_birthdays THEN "birthdays"
        ELSE "invalid"

\* the if/elif chain of main(): the branch taken for a command
Dispatch(command) ==
    IF command \in {S_exit, S_close} THEN "exit"
    ELSE IF command = S_hello THEN "hello"
    ELSE IF command = S_add THEN "add"
    ELSE IF command = S_change THEN "change"
    ELSE IF command = S_phone THEN "phone"
    ELSE IF command = S_all THEN "all"
    ELSE IF command = S_add_birthday THEN "add-birthday"
    ELSE IF command = S_show_birthday THEN "show-birthday"
    ELSE IF command = S_birthdays THEN "birthdays"
    ELSE "invalid"

\* what the view prints: a fixed message (text), a computed string (data),
\* or the "Error: <text>" line of the except handler
Message(text) == [kind |-> "message", text |-> text, data |-> <<>>]
Shown(data) == [kind |-> "message", text |-> "", data |-> data]
Error(text) == [kind |-> "error", text |-> text, data |-> <<>>]
NoOut == [kind |-> "none", text |-> "", data |-> <<>>]

\* "a, b = args" with n targets: the ValueError message, "" when it unpacks
Unpack(args, n) == IF Len(args) < n THEN "not enough values to unpack"
                   ELSE IF Len(args) > n THEN "too many values to unpack"
                   ELSE ""

\* an add that always builds a new Record, overwriting the one in the book
cmd_add_fresh(b, args) ==
    IF Unpack(args, 2) # "" THEN [book |-> b, out |-> Error(Unpack(args, 2))]
    ELSE LET made == Record(args[1])
         IN  IF made.raised # "" THEN [book |-> b, out |-> Error(made.raised)]
             ELSE LET b1 == add_record(b, made.rec)
                      i  == find(b1, args[1])
                      r  == add_phone(b1[i], args[2])
                  IN  IF r.raised # "" THEN [book |-> b1, out |-> Error(r.raised)]
                      ELSE [book |-> [b1 EXCEPT ![i] = r.rec],
                            out |-> Message("Contact added.")]

\* branch "add"
cmd_add(b, args) ==
    IF Unpack(args, 2) # "" THEN [book |-> b, out |-> Error(Unpack(args, 2))]
    ELSE LET name  == args[1]
             phone == args[2]
             fresh == find(b, name) = 0
             made  == Record(name)
         IN  IF fresh /\ made.raised # "" THEN [book |-> b, out |-> Error(made.raised)]
             ELSE LET b1 == IF fresh THEN add_record(b, made.rec) ELSE b
                      i  == find(b1, name)
                      r  == add_phone(b1[i], phone)
                  IN  IF r.raised # "" THEN [book |-> b1, out |-> Error(r.raised)]
                      ELSE [book |-> [b1 EXCEPT ![i] = r.rec],
                            out |-> Message("Contact added.")]

\* branch "change"
cmd_change(b, args) ==
    IF Unpack(args, 3) # "" THEN [book |-> b, out |-> Error(Unpack(args, 3))]
    ELSE LET i == find(b, args[1])
         IN  IF i = 0 THEN [book |-> b, out |-> Error("Contact not found")]
             ELSE LET r == edit_phone(b[i], args[2], args[3])
                  IN  IF r.raised # "" THEN [book |-> [b EXCEPT ![i] = r.rec],
                                             out |-> Error(r.raised)]
                      ELSE [book |-> [b EXCEPT ![i] = r.rec],
                            out |-> Message("Phone updated.")]

\* branch "phone"
cmd_phone(b, args) ==
    IF args = <<>> THEN [book |-> b, out |-> Error("list index out of range")]
    ELSE LET i == find(b, args[1])
         IN  IF i = 0 THEN [book |-> b, out |-> Error("Contact not found")]
             ELSE [book |-> b, out |-> Shown(Join(<<";", " ">>, b[i].phones))]

\* branch "all"
cmd_all(b, args) == [book |-> b, out |-> Shown(BookStr(b))]

\* branch "add-birthday"
cmd_add_birthday(b, args) ==
    IF Unpack(args, 2) # "" THEN [book |-> b, out |-> Error(Unpack(args, 2))]
    ELSE LET i == find(b, args[1])
         IN  IF i = 0 THEN [book |-> b, out |-> Error("Contact not found")]
             ELSE LET r == add_birthday(b[i], args[2])
                  IN  IF r.raised # "" THEN [book |-> [b EXCEPT ![i] = r.rec],
                                             out |-> Error(r.raised)]
                      ELSE [book |-> [b EXCEPT ![i] = r.rec],
                            out |-> Message("Birthday added.")]

\* branch "show-birthday"
cmd_show_birthday(b, args) ==
    IF args = <<>> THEN [book |-> b, out |-> Error("list index out of range")]
    ELSE LET i == find(b, args[1])
         IN  IF i = 0 \/ b[i].birthday = None
             THEN [book |-> b, out |-> Message("No birthday set.")]
             ELSE [book |-> b, out |-> Shown(b[i].birthday)]

\* branch "birthdays", upcoming being the value of get_upcoming_birthdays()
cmd_birthdays(b, upcoming) ==
    IF upcoming.raised # "" THEN [book |-> b, out |-> Error(upcoming.raised)]
    ELSE IF upcoming.list = <<>>
         THEN [book |-> b, out |-> Message("No upcoming birthdays.")]
         ELSE [book |-> b,
               out |-> Shown(Join(<<"\n">>,
                   [i \in DOMAIN upcoming.list |->
                       upcoming.list[i].name \o <<":", " ">>
                       \o upcoming.list[i].congratulation_date]))]

\* the else branch
cmd_invalid(b, args) == [book |-> b, out |-> Message("Invalid command.")]

----------------------------------------------------------------------------
(* Inputs *)

Ann == <<"A", "n", "n">>
Bob == <<"B", "o", "b">>
P1 == <<"0", "5", "0", "1", "1", "1", "2", "2", "3", "3">>
P2 == <<"0", "6", "7", "9", "9", "9", "8", "8", "7", "7">>
PShort == <<"1", "2", "3", "4", "5">>
PAlpha == <<"0", "5", "0", "1", "1", "1", "2", "2", "a", "b">>
B1 == <<"1", "2", ".", "0", "6", ".", "1", "9", "9", "0">>
BSat == <<"1", "5", ".", "0", "6", ".", "1", "9", "9", "1">>
BLeap == <<"2", "9", ".", "0", "2", ".", "2", "0", "0", "0">>
BNewYear == <<"0", "1", ".", "0", "1", ".", "1", "9", "9", "5">>
BYearEnd == <<"3", "1", ".", "1", "2", ".", "1", "9", "9", "9">>
BBadDay == <<"3", "1", ".", "0", "2", ".", "2", "0", "0", "0">>
BBadSep == <<"1", "9", "9", "0", "-", "0", "6", "-", "1", "2">>
W_foo == <<"f", "o", "o">>
W_adds == <<"a", "d", "d", "s">>
W_ADD == <<"A", "D", "D">>
W_Hello == <<"H", "e", "l", "l", "o">>
W_Exit == <<"E", "x", "i", "t">>

Names == {Ann, Bob}
PhoneInputs == {P1, P2, PShort, PAlpha}
BirthdayInputs == {B1, BLeap, BBadDay}

\* a line typed by the user: the tokens separated by one blank
Line(tokens) == Join(<<" ">>, tokens)

Lines ==
    {<<>>, <<" ", " ">>}
    \cup {Line(<<c>>) : c \in {S_hello, W_Hello, S_all, S_birthdays, S_exit,
                               S_close, W_Exit, W_foo, S_add, S_phone,
                               S_show_birthday}}
    \cup {Line(<<c, n>>) : c \in {S_phone, S_show_birthday}, n \in Names}
    \cup {Line(<<c, Ann>>) : c \in {S_add, S_change, S_add_birthday, S_exit}}
    \cup {Line(<<S_add, n, p>>) : n \in Names, p \in PhoneInputs}
    \cup {Line(<<c, Ann, P1>>) : c \in {W_ADD, W_adds, W_foo}}
    \cup {<<" ">> \o Line(<<S_add, Bob>>) \o <<" ", " ">> \o P2,
          Line(<<S_add, Ann, P1, P2>>)}
    \cup {Line(<<S_change, n, p, q>>) : n \in Names, p \in {P1, P2},
                                        q \in PhoneInputs}
    \cup {Line(<<S_add_birthday, n, d>>) : n \in Names, d \in BirthdayInputs}

\* parse_input on every line of Lines
Parsed == [line \in Lines |-> parse_input(line)]

\* the branch of main() every line of Lines takes ("" when parse_input raises)
Branch == [line \in Lines |-> IF Parsed[line].raised # "" THEN ""
                              ELSE Dispatch(Parsed[line].command)]

NoDate == [y |-> 0, m |-> 0, d |-> 0]

\* the values date.today() takes in the command loop
Todays == {[y |-> 2024, m |-> 6, d |-> 10], [y |-> 2024, m |-> 2, d |-> 25]}

NoResult == [raised |-> "", list |-> <<>>]

----------------------------------------------------------------------------
(* The state machine *)
(*   book   the AddressBook of the running process (kept after the process *)
(*          ends, as the value it had when it ended)                       *)
(*   file   addressbook.pkl                                                *)
(*   pc     "stopped" before the first run, "loop" inside while True,      *)
(*          "exited" after break, "crashed" after an uncaught exception    *)
(*   steps  number of lines read so far                                    *)
(*   last   the last step taken: the line read and what was printed        *)

Init == /\ book = <<>>
        /\ file = NoFile
        /\ pc = "stopped"
        /\ steps = 0
        /\ last = [kind |-> "none", line |-> <<>>, out |-> NoOut,
                   today |-> NoDate, days |-> 0, result |-> NoResult]

\* main() up to the loop: book = load_data()
Start == /\ pc # "loop"
         /\ book' = load_data(file)
         /\ pc' = "loop"
         /\ last' = [kind |-> "start", line |-> <<>>, out |-> NoOut,
                     today |-> NoDate, days |-> 0, result |-> NoResult]
         /\ UNCHANGED <<file, steps>>

\* the loop reads line and takes the given branch
Reads(line, branch) == /\ pc = "loop"
                       /\ steps < MaxSteps
                       /\ Branch[line] = branch

\* one iteration that stays in the loop
Iterate(line, res) ==
    /\ book' = res.book
    /\ last' = [kind |-> "cmd", line |-> line, out |-> res.out,
                today |-> NoDate, days |-> 0, result |-> NoResult]
    /\ steps' = steps + 1
    /\ UNCHANGED <<file, pc>>

\* parse_input raises outside the try block: the process dies
DoEmptyLine == \E line \in Lines :
    /\ pc = "loop"
    /\ steps < MaxSteps
    /\ Branch[line] = ""
    /\ pc' = "crashed"
    /\ last' = [kind |-> "cmd", line |-> line,
                out |-> [kind |-> "traceback", text |-> Parsed[line].raised,
                         data |-> <<>>],
                today |-> NoDate, days |-> 0, result |-> NoResult]
    /\ steps' = steps + 1
    /\ UNCHANGED <<book, file>>

DoExit == \E line \in Lines :
    /\ Reads(line, "exit")
    /\ file' = save_data(book)
    /\ pc' = "exited"
    /\ last' = [kind |-> "cmd", line |-> line, out |-> Message("Good bye!"),
                today |-> NoDate, days |-> 0, result |-> NoResult]
    /\ steps' = steps + 1
    /\ UNCHANGED book

DoHello == \E line \in Lines :
    /\ Reads(line, "hello")
    /\ Iterate(line, [book |-> book, out |-> Message("How can I help you?")])

DoAdd == \E line \in Lines :
    /\ Reads(line, "add")
    /\ Iterate(line, cmd_add(book, Parsed[line].args))

DoChange == \E line \in Lines :
    /\ Reads(line, "change")
    /\ Iterate(line, cmd_change(book, Parsed[line].args))

DoPhone == \E line \in Lines :
    /\ Reads(line, "phone")
    /\ Iterate(line, cmd_phone(book, Parsed[line].args))

DoAll == \E line \in Lines :
    /\ Reads(line, "all")
    /\ Iterate(line, cmd_all(book, Parsed[line].args))

DoAddBirthday == \E line \in Lines :
    /\ Reads(line, "add-birthday")
    /\ Iterate(line, cmd_add_birthday(book, Parsed[line].args))

DoShowBirthday == \E line \in Lines :
    /\ Reads(line, "show-birthday")
    /\ Iterate(line, cmd_show_birthday(book, Parsed[line].args))

DoBirthdays == \E line \in Lines, today \in Todays :
    /\ Reads(line, "birthdays")
    /\ LET upcoming == get_upcoming_birthdays(book, today, 7)
           res      == cmd_birthdays(book, upcoming)
       IN  /\ book' = res.book
           /\ last' = [kind |-> "cmd", line |-> line, out |-> res.out,
                       today |-> today, days |-> 7, result |-> upcoming]
    /\ steps' = steps + 1
    /\ UNCHANGED <<file, pc>>

DoInvalid == \E line \in Lines :
    /\ Reads(line, "invalid")
    /\ Iterate(line, cmd_invalid(book, Parsed[line].args))

Next == \/ Start
        \/ DoEmptyLine
        \/ DoExit
        \/ DoHello
        \/ DoAdd
        \/ DoChange
        \/ DoPhone
        \/ DoAll
        \/ DoAddBirthday
        \/ DoShowBirthday
        \/ DoBirthdays
        \/ DoInvalid

Spec == Init /\ [][Next]_vars

----------------------------------------------------------------------------
(* get_upcoming_birthdays as a function of the book, today and days *)

QueryBirthdays == {d \in {B1, BSat, BLeap, BNewYear, BYearEnd, BBadDay, BBadSep} :
                      Birthday(d) = ""}

QueryRecords(name) == {[name |-> name, phones |-> <<>>, birthday |-> d] :
                          d \in QueryBirthdays \cup {None}}

\* books of at most two records, every birthday one that Birthday() accepted
QueryBooks == {<<>>}
              \cup {<<r>> : r \in QueryRecords(Ann)}
              \cup {<<r, q>> : r \in QueryRecords(Ann), q \in QueryRecords(Bob)}

AllDays == {dt \in [y : FirstYear..LastYear, m : 1..12, d : 1..31] :
               dt.d <= DaysInMonth(dt.y, dt.m)}

Windows == {0, 1, 7}

InitQuery == /\ book \in QueryBooks
             /\ file = NoFile
             /\ pc = "loop"
             /\ steps = 0
             /\ last = [kind |-> "none", line |-> <<>>, out |-> NoOut,
                        today |-> NoDate, days |-> 0, result |-> NoResult]

\* book.get_upcoming_birthdays(days) called once, on a day today
Query == \E today \in AllDays, days \in Windows :
    /\ pc = "loop"
    /\ last.kind = "none"
    /\ last' = [kind |-> "query", line |-> <<>>, out |-> NoOut,
                today |-> today, days |-> days,
                result |-> get_upcoming_birthdays(book, today, days)]
    /\ UNCHANGED <<book, file, pc, steps>>

NextQuery == Query

SpecBirthdays == InitQuery /\ [][NextQuery]_vars

----------------------------------------------------------------------------
(* Properties of get_upcoming_birthdays *)

\* the day number of the first date on or after today with the month and
\* day of the birthday
NextOccurrence(birthday, today) ==
    LET bd    == date_obj(birthday)
        years == {y \in today.y..(today.y + 8) :
                     /\ bd.d <= DaysInMonth(y, bd.m)
                     /\ Ordinal([y |-> y, m |-> bd.m, d |-> bd.d]) >= Ordinal(today)}
        first == CHOOSE y \in years : \A z \in years : y <= z
    IN  Ordinal([y |-> first, m |-> bd.m, d |-> bd.d])

Qualifies(rec, today, days) ==
    /\ rec.birthday # None
    /\ NextOccurrence(rec.birthday, today) - Ordinal(today) \in 0..days

Queried == last.kind = "query" \/ (last.kind = "cmd" /\ Branch[last.line] = "birthdays")

\* C1: get_upcoming_birthdays returns, for every book and every today, a
\* list with exactly one entry for each record that has a birthday whose
\* next occurrence is 0..days days after today, and no other entry.
C1_UpcomingIsExactlyTheWindow ==
    Queried =>
        /\ last.result.raised = ""
        /\ \A i \in DOMAIN book :
              Cardinality({k \in DOMAIN last.result.list :
                              last.result.list[k].name = book[i].name})
              = IF Qualifies(book[i], last.today, last.days) THEN 1 ELSE 0
        /\ Len(last.result.list)
           = Cardinality({i \in DOMAIN book : Qualifies(book[i], last.today, last.days)})

\* C2: every returned congratulation date is the next occurrence of the
\* birthday, moved 2 days on from a Saturday and 1 day on from a Sunday;
\* it is never a Saturday or Sunday and at most days + 2 days after today.
C2_CongratulationDateShifted ==
    (Queried /\ last.result.raised = "") =>
        \A k \in DOMAIN last.result.list :
            LET e    == last.result.list[k]
                rec  == book[find(book, e.name)]
                occ  == NextOccurrence(rec.birthday, last.today)
                wd   == (occ + 6) % 7
                cong == Strptime(e.congratulation_date)
            IN  /\ cong.raised = ""
                /\ Len(e.congratulation_date) = 10
                /\ Ordinal(cong.date) = occ + (IF wd = 5 THEN 2 ELSE IF wd = 6 THEN 1 ELSE 0)
                /\ (Ordinal(cong.date) + 6) % 7 \notin {5, 6}
                /\ Ordinal(cong.date) - Ordinal(last.today) <= last.days + 2

\* a Saturday on the last day of the window is moved two days past it
C2_Witness ==
    /\ last.kind = "query"
    /\ last.result.raised = ""
    /\ \E k \in DOMAIN last.result.list :
          LET e == last.result.list[k]
          IN  /\ Ordinal(Strptime(e.congratulation_date).date) - Ordinal(last.today)
                 = last.days + 2
              /\ (NextOccurrence(book[find(book, e.name)].birthday, last.today) + 6) % 7 = 5

\* C10: get_upcoming_birthdays returns a list, without raising, for every
\* book of validated birthdays and every today.
C10_UpcomingNeverRaises == Queried => last.result.raised = ""

----------------------------------------------------------------------------
(* Properties of the command loop.  In a step that reads a line,           *)
(* last'.line is the line read and last'.out what the step printed.        *)

\* the step reads a line in the loop and takes the given branch
Took(branch) == /\ pc = "loop"
                /\ steps' = steps + 1
                /\ Branch[last'.line] = branch

\* the step reads a line in the loop
ReadsLine == pc = "loop" /\ steps' = steps + 1

\* the arguments of the line the step reads
ArgsRead == Parsed[last'.line].args

\* a string of exactly 10 decimal digits
TenDigits(p) == Len(p) = 10 /\ \A i \in 1..Len(p) :
                   p[i] \in {"0", "1", "2", "3", "4", "5", "6", "7", "8", "9"}

\* C3: change with an old phone the record holds and a new phone that is not
\* a 10-digit string prints the validation error and leaves the phone
\* sequence (the whole book) as it was.
C3_InvalidNewPhoneKeepsOld ==
    [][(/\ Took("change")
        /\ Len(ArgsRead) = 3
        /\ find(book, ArgsRead[1]) # 0
        /\ \E j \in DOMAIN book[find(book, ArgsRead[1])].phones :
              book[find(book, ArgsRead[1])].phones[j] = ArgsRead[2]
        /\ ~TenDigits(ArgsRead[3]))
       => (/\ last'.out = Error("Phone must contain exactly 10 digits")
           /\ book' = book)]_vars

\* a change that failed validation on a record that holds the old phone
C3_Witness ==
    /\ last.kind = "cmd"
    /\ Branch[last.line] = "change"
    /\ last.out = Error("Phone must contain exactly 10 digits")
    /\ LET a == Parsed[last.line].args
       IN  /\ Len(a) = 3
           /\ find(book, a[1]) # 0
           /\ \E j \in DOMAIN book[find(book, a[1])].phones :
                 book[find(book, a[1])].phones[j] = a[2]

\* C4: change on a record that does not hold the old phone prints "Phone not
\* found" and changes nothing; with a match and a valid new phone only the
\* first phone equal to the old one is replaced, in place.
C4_EditPhoneFirstMatchOnly ==
    [][(Took("change") /\ Len(ArgsRead) = 3 /\ find(book, ArgsRead[1]) # 0)
       => LET i    == find(book, ArgsRead[1])
              old  == book[i].phones
              hits == {j \in DOMAIN old : old[j] = ArgsRead[2]}
          IN  /\ hits = {} => /\ last'.out = Error("Phone not found")
                              /\ book' = book
              /\ (hits # {} /\ TenDigits(ArgsRead[3])) =>
                    /\ last'.out = Message("Phone updated.")
                    /\ Len(book') = Len(book)
                    /\ \A r \in DOMAIN book : r # i => book'[r] = book[r]
                    /\ book'[i].name = book[i].name
                    /\ book'[i].birthday = book[i].birthday
                    /\ Len(book'[i].phones) = Len(old)
                    /\ \A j \in DOMAIN old :
                          book'[i].phones[j] =
                              IF \A h \in hits : j <= h /\ j \in hits
                              THEN ArgsRead[3] ELSE old[j]]_vars

\* a change on a record holding the old phone twice: the second one stays
C4_Witness ==
    /\ last.kind = "cmd"
    /\ Branch[last.line] = "change"
    /\ last.out = Message("Phone updated.")
    /\ LET a == Parsed[last.line].args
       IN  /\ a[2] # a[3]
           /\ find(book, a[1]) # 0
           /\ book[find(book, a[1])].phones = <<a[3], a[2]>>

\* C5: no line other than exit/close ends the process: the loop never dies
\* of an exception.
C5_NoCommandIsFatal == pc # "crashed"

\* C6: exit and close save the book before the process ends; the book the
\* next run loads equals the book that was saved (same records, order,
\* names, phones, birthdays, hence the same rendering); without a file the
\* run starts with an empty book.
C6_SaveLoadRoundTrip ==
    [][/\ Took("exit") => /\ pc' = "exited"
                          /\ file'.exists
                          /\ load_data(file') = book
       /\ (pc = "exited" /\ pc' = "loop") => /\ book' = book
                                             /\ BookStr(book') = BookStr(book)
       /\ (pc # "loop" /\ pc' = "loop" /\ ~file.exists) => book' = <<>>]_vars

\* a run that started from a saved book of two records, with phones and a
\* birthday
C6_Witness ==
    /\ last.kind = "start"
    /\ file.exists
    /\ Len(book) = 2
    /\ \E i \in DOMAIN book : book[i].birthday # None /\ book[i].phones # <<>>
    /\ \E i \in DOMAIN book : book[i].birthday = None

\* C7: within a session no record leaves the book or is replaced and no
\* phone sequence gets shorter; a record is created only by add for a name
\* not in the book; add for a name in the book appends the phone to the
\* phones the record had.
C7_RecordsOnlyGrow ==
    [][ReadsLine =>
         /\ Len(book') >= Len(book)
         /\ \A i \in DOMAIN book :
               /\ book'[i].name = book[i].name
               /\ Len(book'[i].phones) >= Len(book[i].phones)
               /\ Branch[last'.line] # "add-birthday"
                     => book'[i].birthday = book[i].birthday
         /\ Len(book') > Len(book) =>
               /\ Branch[last'.line] = "add"
               /\ Len(ArgsRead) = 2
               /\ Len(book') = Len(book) + 1
               /\ find(book, ArgsRead[1]) = 0
               /\ book'[Len(book')].name = ArgsRead[1]
         /\ (/\ Branch[last'.line] = "add"
             /\ Len(ArgsRead) = 2
             /\ find(book, ArgsRead[1]) # 0
             /\ TenDigits(ArgsRead[2])) =>
               /\ last'.out = Message("Contact added.")
               /\ book'[find(book, ArgsRead[1])].phones
                  = Append(book[find(book, ArgsRead[1])].phones, ArgsRead[2])]_vars

\* an add for a name that was in the book, with a birthday: the record
\* keeps its birthday and has its phones in the order they were added
C7_Witness ==
    /\ last.kind = "cmd"
    /\ Branch[last.line] = "add"
    /\ last.out = Message("Contact added.")
    /\ LET a == Parsed[last.line].args
       IN  /\ find(book, a[1]) # 0
           /\ Len(book[find(book, a[1])].phones) >= 2
           /\ book[find(book, a[1])].phones[Len(book[find(book, a[1])].phones)] = a[2]
           /\ book[find(book, a[1])].phones[1] # a[2]
           /\ book[find(book, a[1])].birthday # None

KnownCommands == {S_hello, S_add, S_change, S_phone, S_all, S_add_birthday,
                  S_show_birthday, S_birthdays, S_exit, S_close}

\* C8: a line whose first token, lower-cased, is not a command name prints
\* "Invalid command." and leaves the book unchanged, whatever follows.
C8_UnknownCommandIsInvalid ==
    [][(/\ ReadsLine
        /\ Parsed[last'.line].raised = ""
        /\ Parsed[last'.line].command \notin KnownCommands)
       => (/\ last'.out = Message("Invalid command.")
           /\ book' = book
           /\ pc' = "loop"
           /\ file' = file)]_vars

\* an unknown command followed by a name and a phone, on a book with records
C8_Witness ==
    /\ last.kind = "cmd"
    /\ Parsed[last.line].raised = ""
    /\ Parsed[last.line].command \notin KnownCommands
    /\ Len(Parsed[last.line].args) = 2
    /\ last.out = Message("Invalid command.")
    /\ book # <<>>

\* C9: a command that prints an "Error: ..." line leaves the book as it was.
C9_ErrorLeavesBookUnchanged ==
    [][(ReadsLine /\ last'.out.kind = "error") => book' = book]_vars

====
